---- MODULE Spec2Model ----
(***************************************************************************)
(* A model of gmail-cli: the header sync task, the body fetch worker, the  *)
(* render/input loop with its App state (src/src/tui.rs) and the MIME body *)
(* decoder (src/src/google_api.rs).                                        *)
(*                                                                         *)
(* Rust Strings are sequences of bytes (0..255).  An Option<T> is a        *)
(* sequence of length 0 (None) or 1 (Some).  A Result<T, E> is a record    *)
(* with an ok flag.                                                        *)
(***************************************************************************)
EXTENDS Integers, Sequences, FiniteSets, TLC

(***************************************************************************)
(* Bounds of the model.                                                    *)
(***************************************************************************)
\* most message ids a listing returns in the model (the code asks for 50)
MaxN == 3
\* most key events the user types in one session
MaxKeys == 3
\* scroll_down is offered while scroll_offset is below this
MaxScroll == 1
\* most children of one payload node in the decoder's inputs
MaxParts == 2
\* most messages of a listing in the sessions checked for progress
LiveN == 2
\* key events the user produces in the sessions checked for progress
LiveKeys == 2

(***************************************************************************)
(* Program constants.                                                      *)
(***************************************************************************)
\* mpsc::channel::<EmailInfo>(100)
HeaderChanCap == 100
\* mpsc::channel::<String>(10), the body request channel
BodyRequestCap == 10
\* mpsc::channel::<String>(10), the body result channel
BodyResultCap == 10
\* html2text::from_read(.., 80)
HtmlWidth == 80
\* u16::MAX, where saturating_add stops
U16Max == 65535

None == << >>
Some(x) == << x >>
IsSome(o) == Len(o) = 1
Unwrap(o) == o[1]

Ok(x) == [ok |-> TRUE, val |-> x]
Err == [ok |-> FALSE, val |-> << >>]

(***************************************************************************)
(* String literals of the program, as bytes.                               *)
(***************************************************************************)
\* "Loading email list..."
LoadingEmailList ==
  <<76, 111, 97, 100, 105, 110, 103, 32, 101, 109, 97, 105, 108, 32,
    108, 105, 115, 116, 46, 46, 46>>
\* "Loading..."
LoadingBody == <<76, 111, 97, 100, 105, 110, 103, 46, 46, 46>>

(***************************************************************************)
(* base64::engine::general_purpose::URL_SAFE_NO_PAD.decode                 *)
(* The URL-safe alphabet A-Z a-z 0-9 - _ ; no padding is accepted; a       *)
(* length of 1 mod 4 is invalid; the unused low bits of the last symbol    *)
(* must be zero.                                                           *)
(***************************************************************************)
B64Val(c) ==
  IF c >= 65 /\ c <= 90 THEN c - 65
  ELSE IF c >= 97 /\ c <= 122 THEN c - 97 + 26
  ELSE IF c >= 48 /\ c <= 57 THEN c - 48 + 52
  ELSE IF c = 45 THEN 62
  ELSE IF c = 95 THEN 63
  ELSE -1

RECURSIVE B64Quads(_)
B64Quads(v) ==
  IF Len(v) >= 4
  THEN LET n == ((v[1] * 64 + v[2]) * 64 + v[3]) * 64 + v[4]
       IN  << n \div 65536, (n \div 256) % 256, n % 256 >>
             \o B64Quads(SubSeq(v, 5, Len(v)))
  ELSE IF Len(v) = 3
  THEN LET n == (v[1] * 64 + v[2]) * 64 + v[3]
       IN  << n \div 1024, (n \div 4) % 256 >>
  ELSE IF Len(v) = 2
  THEN << (v[1] * 64 + v[2]) \div 16 >>
  ELSE << >>

B64TrailingBitsZero(v) ==
  LET r == Len(v) % 4
  IN  CASE r = 2 -> v[Len(v)] % 16 = 0
        [] r = 3 -> v[Len(v)] % 4 = 0
        [] OTHER -> TRUE

URL_SAFE_NO_PAD_decode(data) ==
  LET v == [i \in 1..Len(data) |-> B64Val(data[i])]
  IN  IF \E i \in 1..Len(data) : v[i] = -1 THEN Err
      ELSE IF Len(data) % 4 = 1 THEN Err
      ELSE IF ~B64TrailingBitsZero(v) THEN Err
      ELSE Ok(B64Quads(v))

(***************************************************************************)
(* String::from_utf8: the bytes must be well-formed UTF-8.                 *)
(***************************************************************************)
IsCont(b) == b >= 128 /\ b <= 191

RECURSIVE Utf8Valid(_)
Utf8Valid(b) ==
  IF Len(b) = 0 THEN TRUE
  ELSE LET c == b[1]
           rest(k) == SubSeq(b, k + 1, Len(b))
       IN  IF c <= 127 THEN Utf8Valid(rest(1))
           ELSE IF c >= 194 /\ c <= 223
           THEN Len(b) >= 2 /\ IsCont(b[2]) /\ Utf8Valid(rest(2))
           ELSE IF c >= 224 /\ c <= 239
           THEN /\ Len(b) >= 3
                /\ IsCont(b[2]) /\ IsCont(b[3])
                /\ (c = 224 => b[2] >= 160)
                /\ (c = 237 => b[2] <= 159)
                /\ Utf8Valid(rest(3))
           ELSE IF c >= 240 /\ c <= 244
           THEN /\ Len(b) >= 4
                /\ IsCont(b[2]) /\ IsCont(b[3]) /\ IsCont(b[4])
                /\ (c = 240 => b[2] >= 144)
                /\ (c = 244 => b[2] <= 143)
                /\ Utf8Valid(rest(4))
           ELSE FALSE

String_from_utf8(bytes) == IF Utf8Valid(bytes) THEN Ok(bytes) ELSE Err

(***************************************************************************)
(* html2text::from_read(html, width), for the fragment of HTML the model's *)
(* messages use: a tag is removed, <b> and </b> are rendered as "**", the  *)
(* text is cut into lines of at most width bytes and each line ends with a *)
(* newline.                                                                *)
(***************************************************************************)
\* the tag names b and /b
BoldTags == { <<98>>, <<47, 98>> }

RECURSIVE HtmlText(_, _, _)
HtmlText(s, inTag, tag) ==
  IF Len(s) = 0 THEN << >>
  ELSE LET c == s[1]
           rest == SubSeq(s, 2, Len(s))
       IN  IF inTag
           THEN IF c = 62
                THEN (IF tag \in BoldTags THEN <<42, 42>> ELSE << >>)
                       \o HtmlText(rest, FALSE, << >>)
                ELSE HtmlText(rest, TRUE, Append(tag, c))
           ELSE IF c = 60 THEN HtmlText(rest, TRUE, << >>)
                ELSE << c >> \o HtmlText(rest, FALSE, << >>)

RECURSIVE WrapLines(_, _)
WrapLines(t, width) ==
  IF Len(t) = 0 THEN << >>
  ELSE IF Len(t) <= width THEN t \o <<10>>
  ELSE SubSeq(t, 1, width) \o <<10>> \o WrapLines(SubSeq(t, width + 1, Len(t)), width)

html2text_from_read(html, width) == WrapLines(HtmlText(html, FALSE, << >>), width)

(***************************************************************************)
(* find_body_parts and decode_email_body (google_api.rs).                  *)
(* A payload is [mime_type, body, parts]: body is an Option of             *)
(* [data |-> Option of bytes], parts an Option of a sequence of payloads.  *)
(***************************************************************************)
\* payload.body.as_ref().and_then(|b| b.data.as_ref())
BodyData(payload) ==
  IF IsSome(payload.body) THEN Unwrap(payload.body).data ELSE None

\* the decoded text of a node's inline data, as an Option
DecodeData(payload) ==
  LET data == BodyData(payload)
  IN  IF IsSome(data)
      THEN LET decoded_bytes == URL_SAFE_NO_PAD_decode(Unwrap(data))
           IN  IF decoded_bytes.ok
               THEN LET s == String_from_utf8(decoded_bytes.val)
                    IN  IF s.ok THEN Some(s.val) ELSE None
               ELSE None
      ELSE None

RECURSIVE find_body_parts(_)
RECURSIVE FoldParts(_, _, _)
RECURSIVE FoldPartsLastWins(_, _, _)

\* a loop in which a candidate of a later part replaces an earlier one
FoldPartsLastWins(parts, i, acc) ==
  IF i > Len(parts) THEN acc
  ELSE LET r == find_body_parts(parts[i])
           plain_text == IF IsSome(r[1]) THEN r[1] ELSE acc[1]
           html_text == IF IsSome(r[2]) THEN r[2] ELSE acc[2]
       IN  FoldPartsLastWins(parts, i + 1, << plain_text, html_text >>)

\* the for loop over parts, from index i, with the candidates acc so far
FoldParts(parts, i, acc) ==
  IF i > Len(parts) THEN acc
  ELSE LET r == find_body_parts(parts[i])
           plain_text == IF ~IsSome(acc[1]) THEN r[1] ELSE acc[1]
           html_text == IF ~IsSome(acc[2]) THEN r[2] ELSE acc[2]
       IN  FoldParts(parts, i + 1, << plain_text, html_text >>)

find_body_parts(payload) ==
  LET plain_text == IF payload.mime_type = "text/plain"
                    THEN DecodeData(payload) ELSE None
      html_text == IF payload.mime_type = "text/plain" THEN None
                   ELSE IF payload.mime_type = "text/html"
                   THEN DecodeData(payload) ELSE None
  IN  IF IsSome(payload.parts)
      THEN FoldParts(Unwrap(payload.parts), 1, << plain_text, html_text >>)
      ELSE << plain_text, html_text >>

\* a decoder that prefers the html candidate
decode_email_body_html_first(detail) ==
  IF IsSome(detail.payload)
  THEN LET r == find_body_parts(Unwrap(detail.payload))
       IN  IF IsSome(r[2]) THEN html2text_from_read(Unwrap(r[2]), HtmlWidth)
           ELSE IF IsSome(r[1]) THEN Unwrap(r[1])
           ELSE detail.snippet
  ELSE detail.snippet

decode_email_body(detail) ==
  IF IsSome(detail.payload)
  THEN LET r == find_body_parts(Unwrap(detail.payload))
       IN  IF IsSome(r[1]) THEN Unwrap(r[1])
           ELSE IF IsSome(r[2]) THEN html2text_from_read(Unwrap(r[2]), HtmlWidth)
           ELSE detail.snippet
  ELSE detail.snippet


(***************************************************************************)
(* The remote mailbox, as the Gmail API answers for a message id.          *)
(***************************************************************************)
\* "snip" followed by the digit of the id
SnippetOf(id) == <<115, 110, 105, 112, 48 + id>>

TextPart(mime, data) ==
  [mime_type |-> mime, body |-> Some([data |-> Some(data)]), parts |-> None]

\* text/plain part "Hello" (SGVsbG8)
PlainHello == TextPart("text/plain", <<83, 71, 86, 115, 98, 71, 56>>)
\* text/html part "<b>Hi</b>" (PGI-SGk8L2I-)
HtmlHi == TextPart("text/html", <<80, 71, 73, 45, 83, 71, 107, 56, 76, 50, 73, 45>>)
\* text/plain part with empty data
PlainEmpty == TextPart("text/plain", << >>)

\* the MessageDetail get_full_message returns for a message id, when it succeeds
FullMessage(id) ==
  [id |-> id,
   snippet |-> SnippetOf(id),
   payload |->
     CASE id = 1 -> Some([mime_type |-> "multipart/alternative", body |-> None,
                          parts |-> Some(<< PlainHello, HtmlHi >>)])
       [] id = 2 -> Some(HtmlHi)
       [] id = 3 -> Some(PlainEmpty)
       [] OTHER -> None]

\* the label_ids a metadata response may carry
LabelChoices == { None, Some(<<"INBOX">>), Some(<<"UNREAD", "INBOX">>) }

\* the MessageDetail get_message_headers returns for a message id, when it succeeds
HeaderDetails(id) ==
  { [id |-> id, snippet |-> SnippetOf(id), label_ids |-> l] : l \in LabelChoices }

\* MessageDetail::is_unread
is_unread(detail) ==
  IF IsSome(detail.label_ids)
  THEN \E k \in 1..Len(Unwrap(detail.label_ids)) : Unwrap(detail.label_ids)[k] = "UNREAD"
  ELSE FALSE

\* what list_messages may answer: an error, or a MessageList whose messages
\* field is absent or holds n ids
Listings(maxn) ==
  { Err, Ok(None) } \cup { Ok(Some([i \in 1..n |-> i])) : n \in 0..maxn }

(***************************************************************************)
(* State.                                                                  *)
(***************************************************************************)
VARIABLES
  listing,        \* the answer the server gives to list_messages
  net,            \* "flaky": any later API call may fail; "reliable": none does
  keysLeft,       \* key events the user still types
  ppc,            \* header sync task: "list", "join", "send", "done"
  message_ids,    \* header sync task: the listed ids
  arrived,        \* join_all: <<index, result>> of the completed fetches, in completion order
  results,        \* header sync task: the Vec being drained
  fetched,        \* history: per listed index, whether its header fetch succeeded
  header_ch,      \* the header channel
  body_request_ch,\* the body request channel
  body_result_ch, \* the body result channel
  wpc,            \* body worker: "recv", "fetch", "send"
  wcur,           \* body worker: the email_id being fetched, or the body being sent
  app,            \* the App struct
  initial_load_done,
  lpc,            \* main thread: "auth", then the render loop's "data", "draw",
                  \* "poll", "mark_read", then "exited"
  proc,           \* the process: what it wrote to stderr and its exit code
  ev,             \* history: what the last step of the render loop did
  failed,         \* history: whether, since the selection last changed, a fetch
                  \* for the selected email failed while the placeholder was
                  \* shown: "none", "alone" (both body channels were empty
                  \* then) or "queued"
  dec             \* decoder harness: the input and the output of decode_email_body

vars == << listing, net, keysLeft, ppc, message_ids, arrived, results, fetched,
           header_ch, body_request_ch, body_result_ch, wpc, wcur, app,
           initial_load_done, lpc, proc, ev, failed, dec >>

producerVars == << ppc, message_ids, arrived, results, fetched >>
workerVars == << wpc, wcur >>
loopVars == << app, initial_load_done, lpc, ev, keysLeft >>

NoEvent == [op |-> "none", sent |-> "none", from |-> 0]

\* App initialization (tui.rs 124-131) and the first values of the tasks,
\* with the main thread at pc
InitAt(pc) ==
  /\ ppc = "list"
  /\ message_ids = << >>
  /\ arrived = << >>
  /\ results = << >>
  /\ fetched = << >>
  /\ header_ch = << >>
  /\ body_request_ch = << >>
  /\ body_result_ch = << >>
  /\ wpc = "recv"
  /\ wcur = << >>
  /\ app = [mode |-> "List",
            is_loading |-> TRUE,
            emails |-> << >>,
            selected_index |-> 0,
            current_email_body |-> LoadingEmailList,
            scroll_offset |-> 0]
  /\ initial_load_done = FALSE
  /\ lpc = pc
  /\ proc = [auth |-> IF pc = "auth" THEN "pending" ELSE "ok",
             stderr |-> << >>,
             exit_code |-> None]
  /\ ev = NoEvent
  /\ failed = "none"

\* the state in which tui::run starts its loop
InitSystem == InitAt("data")

Init ==
  /\ InitSystem
  /\ listing \in Listings(MaxN)
  /\ net = "flaky"
  /\ keysLeft = MaxKeys
  /\ dec = [pc |-> "idle"]

\* the tasks exist from tui::run until the process ends
Running == lpc \notin { "auth", "exited" }

\* the answers an API call may give, given the answers it gives when it succeeds
Answers(oks) == IF net = "reliable" THEN oks ELSE { Err } \cup oks

(***************************************************************************)
(* Header sync task (tui.rs 91-111).                                       *)
(***************************************************************************)
\* list_messages returns
ListDone ==
  /\ Running /\ ppc = "list"
  /\ IF listing.ok
     THEN LET ids == IF IsSome(listing.val) THEN Unwrap(listing.val) ELSE << >>
          IN  /\ message_ids' = ids
              /\ ppc' = "join"
     ELSE /\ message_ids' = message_ids
          /\ ppc' = "done"
  /\ UNCHANGED << arrived, results, fetched >>
  /\ UNCHANGED << listing, net, proc, failed, header_ch, body_request_ch, body_result_ch,
                  workerVars, loopVars, dec >>

Completed == { arrived[k][1] : k \in 1..Len(arrived) }

\* one of the concurrent get_message_headers calls returns, in any order
HeaderFetchDone ==
  /\ Running /\ ppc = "join"
  /\ \E i \in (1..Len(message_ids)) \ Completed :
       \E r \in Answers({ Ok(d) : d \in HeaderDetails(message_ids[i]) }) :
         arrived' = Append(arrived, << i, r >>)
  /\ UNCHANGED << ppc, message_ids, results, fetched >>
  /\ UNCHANGED << listing, net, proc, failed, header_ch, body_request_ch, body_result_ch,
                  workerVars, loopVars, dec >>

\* the result of the fetch with index i
ResultOf(arr, i) == (CHOOSE k \in 1..Len(arr) : arr[k][1] = i)

\* a join that hands the outputs over in completion order
JoinAllCompletionOrder(arr, n) == [k \in 1..n |-> arr[k][2]]

\* futures::future::join_all: the outputs in the order of the input futures
JoinAllOutput(arr, n) == [i \in 1..n |-> arr[ResultOf(arr, i)][2]]

\* join_all returns once every fetch has completed
JoinAll ==
  /\ Running /\ ppc = "join"
  /\ Completed = 1..Len(message_ids)
  /\ results' = JoinAllOutput(arrived, Len(message_ids))
  /\ fetched' = [i \in 1..Len(message_ids) |-> arrived[ResultOf(arrived, i)][2].ok]
  /\ arrived' = << >>
  /\ ppc' = "send"
  /\ UNCHANGED message_ids
  /\ UNCHANGED << listing, net, proc, failed, header_ch, body_request_ch, body_result_ch,
                  workerVars, loopVars, dec >>

\* EmailInfo built from a MessageDetail (from and subject are display only)
EmailInfo(detail) ==
  [id |-> detail.id, is_unread |-> is_unread(detail), snippet |-> detail.snippet]

\* a drain that gives up at the first failed fetch
DrainStepAbort(res, ch) ==
  IF Head(res).ok
  THEN [results |-> Tail(res), ch |-> Append(ch, EmailInfo(Head(res).val))]
  ELSE [results |-> << >>, ch |-> ch]

\* one turn of the for loop over the drained results: an Ok result is sent,
\* an Err result is skipped; the loop goes on with the rest in both cases
DrainStep(res, ch) ==
  IF Head(res).ok
  THEN [results |-> Tail(res), ch |-> Append(ch, EmailInfo(Head(res).val))]
  ELSE [results |-> Tail(res), ch |-> ch]

\* one turn of the for loop (the send waits while the channel is full)
ProducerSend ==
  /\ Running /\ ppc = "send"
  /\ results # << >>
  /\ Head(results).ok => Len(header_ch) < HeaderChanCap
  /\ LET r == DrainStep(results, header_ch)
     IN  /\ header_ch' = r.ch
         /\ results' = r.results
  /\ UNCHANGED << ppc, message_ids, arrived, fetched >>
  /\ UNCHANGED << listing, net, proc, failed, body_request_ch, body_result_ch,
                  workerVars, loopVars, dec >>

\* the loop is over: the task ends and header_tx is dropped
ProducerEnd ==
  /\ Running /\ ppc = "send"
  /\ results = << >>
  /\ ppc' = "done"
  /\ UNCHANGED << message_ids, arrived, results, fetched >>
  /\ UNCHANGED << listing, net, proc, failed, header_ch, body_request_ch, body_result_ch,
                  workerVars, loopVars, dec >>

(***************************************************************************)
(* Body fetch worker (tui.rs 114-121).                                     *)
(***************************************************************************)
\* a receive that takes the newest request first
RecvNewest(ch) == [id |-> ch[Len(ch)], rest |-> SubSeq(ch, 1, Len(ch) - 1)]

\* mpsc::Receiver::recv on a non-empty channel: the oldest message
RecvRequest(ch) == [id |-> Head(ch), rest |-> Tail(ch)]

\* body_request_rx.recv() yields the next request
WorkerRecv ==
  /\ Running /\ wpc = "recv"
  /\ body_request_ch # << >>
  /\ wcur' = RecvRequest(body_request_ch).id
  /\ body_request_ch' = RecvRequest(body_request_ch).rest
  /\ wpc' = "fetch"
  /\ UNCHANGED << listing, net, proc, failed, header_ch, body_result_ch, producerVars, loopVars, dec >>

\* a worker that answers a failed fetch with an empty body
FetchOutcomeEmptyBody(r) ==
  IF r.ok
  THEN [wpc |-> "send", wcur |-> decode_email_body(r.val)]
  ELSE [wpc |-> "send", wcur |-> << >>]

\* if let Ok(detail) = get_full_message(..): Ok is decoded and goes on to the
\* send, Err falls through to the next recv
FetchOutcome(r) ==
  IF r.ok
  THEN [wpc |-> "send", wcur |-> decode_email_body(r.val)]
  ELSE [wpc |-> "recv", wcur |-> << >>]

\* get_full_message returns
WorkerFetchDone ==
  /\ Running /\ wpc = "fetch"
  /\ \E r \in Answers({ Ok(FullMessage(wcur)) }) :
       /\ wcur' = FetchOutcome(r).wcur
       /\ wpc' = FetchOutcome(r).wpc
       /\ failed' =
            IF /\ ~r.ok
               /\ app.selected_index < Len(app.emails)
               /\ app.emails[app.selected_index + 1].id = wcur
               /\ app.current_email_body = LoadingBody
            THEN IF body_request_ch = << >> /\ body_result_ch = << >>
                 THEN "alone" ELSE "queued"
            ELSE failed
  /\ UNCHANGED << listing, net, proc, header_ch, body_request_ch, body_result_ch,
                  producerVars, loopVars, dec >>

\* body_result_tx.send(body) completes (it waits while the channel is full)
WorkerSend ==
  /\ Running /\ wpc = "send"
  /\ Len(body_result_ch) < BodyResultCap
  /\ body_result_ch' = Append(body_result_ch, wcur)
  /\ wcur' = << >>
  /\ wpc' = "recv"
  /\ UNCHANGED << listing, net, proc, failed, header_ch, body_request_ch, producerVars, loopVars, dec >>


(***************************************************************************)
(* App (tui.rs 40-81).  A method returns the new App, the body request     *)
(* channel after it, and what its try_send did: "none", "ok" or "full".    *)
(***************************************************************************)
\* a send that makes room by evicting the oldest request
try_send_evict(tx, id) ==
  IF Len(tx) < BodyRequestCap
  THEN [tx |-> Append(tx, id), sent |-> "ok"]
  ELSE [tx |-> Append(Tail(tx), id), sent |-> "ok"]

\* mpsc::Sender::try_send on the body request channel
try_send(tx, id) ==
  IF Len(tx) < BodyRequestCap
  THEN [tx |-> Append(tx, id), sent |-> "ok"]
  ELSE [tx |-> tx, sent |-> "full"]

\* a select that keeps the scroll position
select_keep_scroll(a, index, tx) ==
  IF a.selected_index # index \/ Len(a.current_email_body) = 0
  THEN LET a2 == [a EXCEPT !.selected_index = index,
                           !.current_email_body = LoadingBody]
       IN  IF index < Len(a.emails)
           THEN LET s == try_send(tx, a.emails[index + 1].id)
                IN  [app |-> a2, tx |-> s.tx, sent |-> s.sent]
           ELSE [app |-> a2, tx |-> tx, sent |-> "none"]
  ELSE [app |-> a, tx |-> tx, sent |-> "none"]

select(a, index, tx) ==
  IF a.selected_index # index \/ Len(a.current_email_body) = 0
  THEN LET a2 == [a EXCEPT !.selected_index = index,
                           !.scroll_offset = 0,
                           !.current_email_body = LoadingBody]
       IN  IF index < Len(a.emails)
           THEN LET s == try_send(tx, a.emails[index + 1].id)
                IN  [app |-> a2, tx |-> s.tx, sent |-> s.sent]
           ELSE [app |-> a2, tx |-> tx, sent |-> "none"]
  ELSE [app |-> a, tx |-> tx, sent |-> "none"]

\* a previous that stops at the first row
previous_no_wrap(a, tx) ==
  IF Len(a.emails) # 0
  THEN LET new_index == IF a.selected_index > 0
                        THEN a.selected_index - 1
                        ELSE 0
       IN  select(a, new_index, tx)
  ELSE [app |-> a, tx |-> tx, sent |-> "none"]

previous(a, tx) ==
  IF Len(a.emails) # 0
  THEN LET new_index == IF a.selected_index > 0
                        THEN a.selected_index - 1
                        ELSE Len(a.emails) - 1
       IN  select(a, new_index, tx)
  ELSE [app |-> a, tx |-> tx, sent |-> "none"]

\* a next that runs past the last row
next_no_wrap(a, tx) ==
  IF Len(a.emails) # 0
  THEN select(a, a.selected_index + 1, tx)
  ELSE [app |-> a, tx |-> tx, sent |-> "none"]

next(a, tx) ==
  IF Len(a.emails) # 0
  THEN LET new_index == IF a.selected_index < Len(a.emails) - 1
                        THEN a.selected_index + 1
                        ELSE 0
       IN  select(a, new_index, tx)
  ELSE [app |-> a, tx |-> tx, sent |-> "none"]

\* a Down in Viewing mode that also moves the selection to the next row
scroll_down_moves(a) ==
  [a EXCEPT !.scroll_offset = IF @ < U16Max THEN @ + 1 ELSE @,
            !.selected_index = IF Len(a.emails) # 0
                               THEN (@ + 1) % Len(a.emails) ELSE @]

\* u16::saturating_add(1)
scroll_down(a) ==
  [a EXCEPT !.scroll_offset = IF @ < U16Max THEN @ + 1 ELSE @]

\* u16::saturating_sub(1)
scroll_up(a) ==
  [a EXCEPT !.scroll_offset = IF @ > 0 THEN @ - 1 ELSE @]

(***************************************************************************)
(* Render/input loop (tui.rs 142-261): one iteration is the data step, the *)
(* draw, and the poll for a key.                                           *)
(***************************************************************************)
\* the id of the selected email, 0 when there is none
SelectedId(a) ==
  IF a.selected_index < Len(a.emails) THEN a.emails[a.selected_index + 1].id ELSE 0

\* a drain that takes the result off the channel and drops it
ApplyBodyDiscard(a, body) == a

\* a drain that keeps only the body of the selected email
ApplyBodyIfCurrent(a, body) ==
  IF body = decode_email_body(FullMessage(SelectedId(a)))
  THEN [a EXCEPT !.current_email_body = body]
  ELSE a

\* what a received body does to the App (tui.rs 145-147)
ApplyBody(a, body) == [a EXCEPT !.current_email_body = body]

\* a loop that drains a waiting body result while headers still load
BodyDrainAlways(a) == TRUE

\* the branch of the data handling that reads the body result channel
BodyDrainAllowed(a) == ~a.is_loading

\* !is_loading and body_result_rx.try_recv() is Ok
LoopBodyResult ==
  /\ lpc = "data"
  /\ BodyDrainAllowed(app)
  /\ body_result_ch # << >>
  /\ app' = ApplyBody(app, Head(body_result_ch))
  /\ body_result_ch' = Tail(body_result_ch)
  /\ lpc' = "draw"
  /\ ev' = [op |-> "body", sent |-> "none"]
  /\ UNCHANGED << listing, net, proc, failed, keysLeft, initial_load_done, header_ch, body_request_ch,
                  producerVars, workerVars, dec >>

\* what the first received header does beyond the push (tui.rs 152-155)
FirstHeader(a, done, tx) ==
  IF ~done THEN select(a, 0, tx) ELSE [app |-> a, tx |-> tx, sent |-> "none"]

\* a push that puts the received summary in front
PushEmailFront(emails, email) == << email >> \o emails

\* app.emails.push(email)
PushEmail(emails, email) == Append(emails, email)

\* is_loading and header_rx.try_recv() is Ok(email)
LoopHeader ==
  /\ lpc = "data"
  /\ app.is_loading
  /\ header_ch # << >>
  /\ LET pushed == [app EXCEPT !.emails = PushEmail(@, Head(header_ch))]
         r == FirstHeader(pushed, initial_load_done, body_request_ch)
     IN  /\ app' = r.app
         /\ body_request_ch' = r.tx
         /\ ev' = [op |-> "header", sent |-> r.sent]
  /\ initial_load_done' = TRUE
  /\ header_ch' = Tail(header_ch)
  /\ lpc' = "draw"
  /\ UNCHANGED << listing, net, proc, failed, keysLeft, body_result_ch, producerVars, workerVars, dec >>

\* a loop that ends loading on any failed try_recv
OnHeaderErrorAny(a, err) == [a EXCEPT !.is_loading = FALSE]

\* the arms for a failed header_rx.try_recv()
OnHeaderError(a, err) ==
  IF err = "Disconnected" THEN [a EXCEPT !.is_loading = FALSE] ELSE a

\* is_loading and header_rx.try_recv() is Err(Disconnected): the channel is
\* empty and its sender is dropped
LoopHeaderClosed ==
  /\ lpc = "data"
  /\ app.is_loading
  /\ header_ch = << >> /\ ppc = "done"
  /\ app' = OnHeaderError(app, "Disconnected")
  /\ lpc' = "draw"
  /\ ev' = [op |-> "closed", sent |-> "none"]
  /\ UNCHANGED << listing, net, proc, failed, keysLeft, initial_load_done, header_ch, body_request_ch,
                  body_result_ch, producerVars, workerVars, dec >>

\* the try_recv of this iteration finds its channel empty
LoopNoData ==
  /\ lpc = "data"
  /\ IF app.is_loading
     THEN /\ header_ch = << >> /\ ppc # "done"
          /\ app' = OnHeaderError(app, "Empty")
     ELSE /\ body_result_ch = << >>
          /\ app' = app
  /\ lpc' = "draw"
  /\ ev' = [op |-> "idle", sent |-> "none"]
  /\ UNCHANGED << listing, net, proc, failed, keysLeft, initial_load_done, header_ch,
                  body_request_ch, body_result_ch, producerVars, workerVars, dec >>

\* terminal.draw: a projection of the App
Draw ==
  /\ lpc = "draw"
  /\ lpc' = "poll"
  /\ ev' = [op |-> "draw", sent |-> "none"]
  /\ UNCHANGED << listing, net, proc, failed, keysLeft, app, initial_load_done, header_ch,
                  body_request_ch, body_result_ch, producerVars, workerVars, dec >>

\* event::poll times out, or the event is not a key
PollTimeout ==
  /\ lpc = "poll"
  /\ lpc' = "data"
  /\ ev' = [op |-> "timeout", sent |-> "none"]
  /\ UNCHANGED << listing, net, proc, failed, keysLeft, app, initial_load_done, header_ch,
                  body_request_ch, body_result_ch, producerVars, workerVars, dec >>

KeyPressed ==
  /\ lpc = "poll"
  /\ keysLeft > 0
  /\ keysLeft' = keysLeft - 1

\* List mode, 'q': break
KeyQuit ==
  /\ KeyPressed
  /\ app.mode = "List"
  /\ lpc' = "exited"
  /\ ev' = [op |-> "quit", sent |-> "none"]
  /\ UNCHANGED << listing, net, proc, failed, app, initial_load_done, header_ch,
                  body_request_ch, body_result_ch, producerVars, workerVars, dec >>

\* List mode, Down
KeyDown ==
  /\ KeyPressed
  /\ app.mode = "List"
  /\ LET r == next(app, body_request_ch)
     IN  /\ app' = r.app
         /\ body_request_ch' = r.tx
         /\ ev' = [op |-> "next", sent |-> r.sent]
         /\ failed' = IF r.app.selected_index # app.selected_index
                      THEN "none" ELSE failed
  /\ lpc' = "data"
  /\ UNCHANGED << listing, net, proc, initial_load_done, header_ch, body_result_ch,
                  producerVars, workerVars, dec >>

\* List mode, Up
KeyUp ==
  /\ KeyPressed
  /\ app.mode = "List"
  /\ LET r == previous(app, body_request_ch)
     IN  /\ app' = r.app
         /\ body_request_ch' = r.tx
         /\ ev' = [op |-> "previous", sent |-> r.sent]
         /\ failed' = IF r.app.selected_index # app.selected_index
                      THEN "none" ELSE failed
  /\ lpc' = "data"
  /\ UNCHANGED << listing, net, proc, initial_load_done, header_ch, body_result_ch,
                  producerVars, workerVars, dec >>

\* List mode, Enter
KeyEnter ==
  /\ KeyPressed
  /\ app.mode = "List"
  /\ app' = [app EXCEPT !.mode = "Viewing"]
  /\ lpc' = "data"
  /\ ev' = [op |-> "enter", sent |-> "none"]
  /\ UNCHANGED << listing, net, proc, failed, initial_load_done, header_ch, body_request_ch,
                  body_result_ch, producerVars, workerVars, dec >>

\* the selected email needs mark_as_read (tui.rs 245-246)
NeedsMarkRead(a) ==
  /\ a.selected_index < Len(a.emails)
  /\ a.emails[a.selected_index + 1].is_unread

\* Viewing mode, 'q': with an unread email selected the loop awaits
\* mark_as_read, else it returns to the list at once
KeyBack ==
  /\ KeyPressed
  /\ app.mode = "Viewing"
  /\ IF NeedsMarkRead(app)
     THEN /\ lpc' = "mark_read"
          /\ app' = app
     ELSE /\ lpc' = "data"
          /\ app' = [app EXCEPT !.mode = "List"]
  /\ ev' = [op |-> "back", sent |-> "none"]
  /\ UNCHANGED << listing, net, proc, failed, initial_load_done, header_ch, body_request_ch,
                  body_result_ch, producerVars, workerVars, dec >>

\* a handler that clears the flag whatever mark_as_read answers
AfterMarkReadAlways(a, is_ok) ==
  [a EXCEPT !.emails[a.selected_index + 1].is_unread = FALSE,
            !.mode = "List"]

\* what the answer of mark_as_read does to the App (tui.rs 247-252)
AfterMarkRead(a, is_ok) ==
  [a EXCEPT !.emails[a.selected_index + 1].is_unread = IF is_ok THEN FALSE ELSE @,
            !.mode = "List"]

\* mark_as_read returns to the loop that awaits it
MarkReadDone ==
  /\ lpc = "mark_read"
  /\ \E r \in Answers({ Ok(<< >>) }) :
       LET is_ok == r.ok IN
       /\ app' = AfterMarkRead(app, is_ok)
       /\ ev' = [op |-> IF is_ok THEN "mark_ok" ELSE "mark_err", sent |-> "none"]
  /\ lpc' = "data"
  /\ UNCHANGED << listing, net, proc, failed, keysLeft, initial_load_done, header_ch, body_request_ch,
                  body_result_ch, producerVars, workerVars, dec >>

\* Viewing mode, Down
KeyScrollDown ==
  /\ KeyPressed
  /\ app.mode = "Viewing"
  /\ app.scroll_offset < MaxScroll
  /\ app' = scroll_down(app)
  /\ lpc' = "data"
  /\ ev' = [op |-> "scroll_down", sent |-> "none"]
  /\ UNCHANGED << listing, net, proc, failed, initial_load_done, header_ch, body_request_ch,
                  body_result_ch, producerVars, workerVars, dec >>

\* Viewing mode, Up
KeyScrollUp ==
  /\ KeyPressed
  /\ app.mode = "Viewing"
  /\ app' = scroll_up(app)
  /\ lpc' = "data"
  /\ ev' = [op |-> "scroll_up", sent |-> "none"]
  /\ UNCHANGED << listing, net, proc, failed, initial_load_done, header_ch, body_request_ch,
                  body_result_ch, producerVars, workerVars, dec >>

\* any other key, in either mode
KeyOther ==
  /\ KeyPressed
  /\ lpc' = "data"
  /\ ev' = [op |-> "other", sent |-> "none"]
  /\ UNCHANGED << listing, net, proc, failed, app, initial_load_done, header_ch, body_request_ch,
                  body_result_ch, producerVars, workerVars, dec >>

\* the loop has ended: the terminal is restored, tui::run returns Ok(()) and
\* main returns, which ends the process with exit code 0
MainReturn ==
  /\ lpc = "exited"
  /\ ~IsSome(proc.exit_code)
  /\ proc' = [proc EXCEPT !.exit_code = Some(0)]
  /\ UNCHANGED << listing, net, keysLeft, failed, header_ch, body_request_ch,
                  body_result_ch, producerVars, workerVars, app, initial_load_done, lpc, ev, dec >>

Next ==
  \/ ListDone
  \/ HeaderFetchDone
  \/ JoinAll
  \/ ProducerSend
  \/ ProducerEnd
  \/ WorkerRecv
  \/ WorkerFetchDone
  \/ WorkerSend
  \/ LoopBodyResult
  \/ LoopHeader
  \/ LoopHeaderClosed
  \/ LoopNoData
  \/ Draw
  \/ PollTimeout
  \/ KeyQuit
  \/ KeyDown
  \/ KeyUp
  \/ KeyEnter
  \/ KeyBack
  \/ MarkReadDone
  \/ KeyScrollDown
  \/ KeyScrollUp
  \/ KeyOther
  \/ MainReturn

Spec == Init /\ [][Next]_vars

(***************************************************************************)
(* The whole process (main.rs 17-38): credential acquisition, then the     *)
(* session.                                                                *)
(***************************************************************************)
\* get_auth_token returns: Ok starts tui::run, Err is printed and main returns
AuthDone ==
  /\ lpc = "auth"
  /\ \E ok \in BOOLEAN :
       IF ok
       THEN /\ lpc' = "data"
            /\ proc' = [proc EXCEPT !.auth = "ok"]
       ELSE /\ lpc' = "exited"
            /\ proc' = [auth |-> "err",
                        stderr |-> Append(proc.stderr, "Authentication error"),
                        exit_code |-> Some(0)]
  /\ UNCHANGED << listing, net, keysLeft, failed, header_ch, body_request_ch,
                  body_result_ch, producerVars, workerVars, app, initial_load_done, ev, dec >>

InitMain ==
  /\ InitAt("auth")
  /\ listing \in Listings(MaxN)
  /\ net = "flaky"
  /\ keysLeft = MaxKeys
  /\ dec = [pc |-> "idle"]

NextMain == AuthDone \/ Next

SpecMain == InitMain /\ [][NextMain]_vars


(***************************************************************************)
(* The session in which the user keeps pressing keys on a two-message      *)
(* list over a network that answers every call: enough key events to fill  *)
(* the body request channel, scroll a message, and select again.           *)
(***************************************************************************)
InitBackpressure ==
  /\ InitSystem
  /\ listing = Ok(Some(<< 1, 2 >>))
  /\ net = "reliable"
  /\ keysLeft = BodyRequestCap + 4
  /\ dec = [pc |-> "idle"]

SpecBackpressure == InitBackpressure /\ [][Next]_vars

(***************************************************************************)
(* Progress.  The three tasks are scheduled by the tokio runtime: a task   *)
(* that can take a step eventually takes one.  For the producer and the    *)
(* worker this says that every API call returns and that a send on a       *)
(* channel with room completes; for the render loop, that event::poll      *)
(* returns within its timeout, that the loop keeps iterating, and that the *)
(* awaited mark_as_read returns.  Key events are the user's and are not    *)
(* forced.                                                                 *)
(***************************************************************************)
ProducerNext == ListDone \/ HeaderFetchDone \/ JoinAll \/ ProducerSend \/ ProducerEnd

\* a step of the worker task, told by its position alone: the worker can
\* step when a request waits for its recv, when its fetch is in flight, or
\* when the result channel has room for its send, and only the worker's own
\* steps (WorkerRecv, WorkerFetchDone, WorkerSend) change wpc
WorkerNext ==
  /\ Running
  /\ \/ wpc = "recv" /\ body_request_ch # << >> /\ wpc' = "fetch"
     \/ wpc = "fetch" /\ wpc' \in { "send", "recv" }
     \/ wpc = "send" /\ Len(body_result_ch) < BodyResultCap /\ wpc' = "recv"

LoopNext ==
  \/ LoopBodyResult \/ LoopHeader \/ LoopHeaderClosed \/ LoopNoData
  \/ Draw \/ PollTimeout \/ MarkReadDone

\* every step of a task changes the task's position or queue, so its own
\* variables serve as the subscript
Fairness ==
  /\ WF_producerVars(ProducerNext)
  /\ WF_wpc(WorkerNext)
  /\ WF_lpc(LoopNext)

InitLive ==
  /\ InitSystem
  /\ listing \in Listings(LiveN)
  /\ net \in { "flaky", "reliable" }
  /\ keysLeft = LiveKeys
  /\ dec = [pc |-> "idle"]

SpecLive == InitLive /\ [][Next]_vars /\ Fairness

(***************************************************************************)
(* Decoder harness: decode_email_body applied to a MessageDetail drawn     *)
(* from a bounded set of payload trees.                                    *)
(***************************************************************************)
Node(mime, body, parts) == [mime_type |-> mime, body |-> body, parts |-> parts]

\* "Bye" (Qnll)
PlainBye == TextPart("text/plain", <<81, 110, 108, 108>>)
\* "SGVsbG8=": padded, which the unpadded engine rejects
PlainPadded == TextPart("text/plain", <<83, 71, 86, 115, 98, 71, 56, 61>>)
\* "_w": the byte 0xFF, which is not UTF-8
PlainBadUtf8 == TextPart("text/plain", <<95, 119>>)
\* "<p>ok" (PHA-b2s)
HtmlOk == TextPart("text/html", <<80, 72, 65, 45, 98, 50, 115>>)
\* "PGI+SGk8L2I+": the standard alphabet, which the URL-safe engine rejects
HtmlStdAlphabet ==
  TextPart("text/html", <<80, 71, 73, 43, 83, 71, 107, 56, 76, 50, 73, 43>>)
\* "SGVsbG9": the last symbol has non-zero unused bits
HtmlTrailingBits == TextPart("text/html", <<83, 71, 86, 115, 98, 71, 57>>)

Leaves ==
  { PlainHello, PlainBye, PlainEmpty, PlainPadded, PlainBadUtf8,
    Node("text/plain", None, None),
    Node("text/plain", Some([data |-> None]), None),
    HtmlHi, HtmlOk, HtmlStdAlphabet, HtmlTrailingBits,
    Node("multipart/alternative", None, None),
    TextPart("multipart/alternative", <<83, 71, 86, 115, 98, 71, 56>>) }

\* a multipart node with one or two parts
Inner ==
  { Node("multipart/alternative", None, Some(q)) :
      q \in UNION { [1..k -> { PlainHello, HtmlHi, PlainPadded }] : k \in 1..2 } }

RootHeads ==
  { Node("multipart/mixed", None, None), PlainBye, HtmlOk, PlainBadUtf8 }

PartLists == UNION { [1..k -> Leaves \cup Inner] : k \in 0..MaxParts }

Payloads ==
  { [h EXCEPT !.parts = p] : h \in RootHeads, p \in { None } \cup { Some(q) : q \in PartLists } }

\* "snip"
DecSnippet == <<115, 110, 105, 112>>

DecoderInputs ==
  { [id |-> 1, snippet |-> DecSnippet, payload |-> p] :
      p \in { None } \cup { Some(x) : x \in Payloads } }

InitDecode ==
  /\ InitSystem
  /\ listing = Err
  /\ net = "flaky"
  /\ keysLeft = 0
  /\ \E d \in DecoderInputs : dec = [pc |-> "input", detail |-> d]

\* the call decode_email_body(&detail)
DecodeCall ==
  /\ dec.pc = "input"
  /\ dec' = [pc |-> "done", detail |-> dec.detail,
             found |-> IF IsSome(dec.detail.payload)
                       THEN find_body_parts(Unwrap(dec.detail.payload))
                       ELSE << None, None >>,
             result |-> decode_email_body(dec.detail)]
  /\ UNCHANGED << listing, net, proc, failed, keysLeft, header_ch, body_request_ch, body_result_ch,
                  producerVars, workerVars, app, initial_load_done, lpc, ev >>

NextDecode == DecodeCall

SpecDecode == InitDecode /\ [][NextDecode]_vars


(***************************************************************************)
(* Properties.                                                             *)
(***************************************************************************)
EmailIds(a) == [k \in 1..Len(a.emails) |-> a.emails[k].id]

AllFetched == \A i \in 1..Len(fetched) : fetched[i]

\* the listed ids whose header fetch succeeded, in listing order
FetchedIds ==
  LET idx == SelectSeq([i \in 1..Len(message_ids) |-> i], LAMBDA i : fetched[i])
  IN  [k \in 1..Len(idx) |-> message_ids[idx[k]]]

\* the header phase is over: the loop has seen the channel closed
HeadersReceived == ~app.is_loading /\ listing.ok

\* C1: when every header fetch succeeded, the emails list, once all summaries
\* are received, holds the listed ids in listing order, whatever the order in
\* which the fetches completed.
C1_HeaderOrder ==
  (HeadersReceived /\ AllFetched) => EmailIds(app) = message_ids

C1_Witness ==
  /\ HeadersReceived /\ AllFetched
  /\ Len(message_ids) = MaxN
  /\ Len(app.emails) = MaxN

\* C2: when some header fetches fail the producer goes on, and the emails list
\* finally held is the listed ids whose fetch succeeded, in listing order.
C2_PartialFailure ==
  HeadersReceived => EmailIds(app) = FetchedIds

C2_Witness ==
  /\ HeadersReceived
  /\ message_ids = << 1, 2, 3 >>
  /\ fetched = << TRUE, FALSE, TRUE >>
  /\ EmailIds(app) = << 1, 3 >>

\* C3: at the first header the loop receives, index 0 is selected and a body
\* request for that email is put on the body request channel.
C3_FirstHeaderPrefetch ==
  (ev.op = "header" /\ Len(app.emails) = 1)
    => (app.selected_index = 0 /\ ev.sent = "ok")

\* C4: the render loop is never the caller of a Mailbox API call: it is never
\* suspended on a network answer.
C4_LoopNeverAwaitsNetwork == lpc # "mark_read"

\* a step of the loop's data handling
DataStep == lpc = "data" /\ lpc' = "draw"

\* a step of the loop's key handling that selects another row
SelectionChange ==
  lpc = "poll" /\ lpc' # "poll" /\ app'.selected_index # app.selected_index

\* C5: every body result the loop receives becomes the current body, whatever
\* is selected (so the body of an email selected earlier can land on the
\* current selection).
C5_StaleResultApplied ==
  [][(DataStep /\ ~app.is_loading /\ body_result_ch # << >>)
       => /\ app'.current_email_body = Head(body_result_ch)
          /\ body_result_ch' = Tail(body_result_ch)]_vars

C5_Witness ==
  /\ ev.op = "body"
  /\ SelectedId(app) # 0
  /\ \E k \in 1..Len(app.emails) :
       /\ app.emails[k].id # SelectedId(app)
       /\ app.current_email_body = decode_email_body(FullMessage(app.emails[k].id))
  /\ app.current_email_body # decode_email_body(FullMessage(SelectedId(app)))

\* C6: selected_index is below the length of emails when emails is not empty,
\* and 0 when it is empty.
C6_SelectionInRange ==
  IF Len(app.emails) = 0
  THEN app.selected_index = 0
  ELSE app.selected_index < Len(app.emails)

C6_Witness ==
  /\ ev.op \in { "next", "previous" }
  /\ Len(app.emails) >= 2
  /\ app.selected_index = Len(app.emails) - 1

NavStep(op) == lpc = "poll" /\ lpc' = "data" /\ ev'.op = op

NavOnEmpty ==
  /\ app' = app
  /\ body_request_ch' = body_request_ch
  /\ ev'.sent = "none"

\* C7: on a list of n >= 1 rows next selects (i+1) mod n and previous selects
\* (i-1) mod n; on an empty list both change nothing and send nothing; three
\* next on a two-row list from row 0 select 1, 0, 1.
C7_Wraparound ==
  /\ [][/\ NavStep("next") =>
             IF Len(app.emails) >= 1
             THEN app'.selected_index = (app.selected_index + 1) % Len(app.emails)
             ELSE NavOnEmpty
        /\ NavStep("previous") =>
             IF Len(app.emails) >= 1
             THEN app'.selected_index
                    = (app.selected_index + Len(app.emails) - 1) % Len(app.emails)
             ELSE NavOnEmpty]_vars
  /\ [](Len(app.emails) = 2 /\ app.selected_index = 0
          => LET r1 == next(app, body_request_ch)
                 r2 == next(r1.app, r1.tx)
                 r3 == next(r2.app, r2.tx)
             IN  << r1.app.selected_index, r2.app.selected_index,
                    r3.app.selected_index >> = << 1, 0, 1 >>)

C7_Witness ==
  /\ ev.op = "previous"
  /\ Len(app.emails) = MaxN
  /\ app.selected_index = MaxN - 1

\* C8: with the body request channel at capacity, a selection change drops its
\* request, still updates the App (new row, scroll 0, placeholder body) and
\* the loop goes on to its next iteration.
C8_Backpressure ==
  [][(SelectionChange /\ Len(body_request_ch) = BodyRequestCap)
       => /\ body_request_ch' = body_request_ch
          /\ ev'.sent = "full"
          /\ app'.scroll_offset = 0
          /\ app'.current_email_body = LoadingBody
          /\ app'.emails = app.emails
          /\ lpc' = "data"]_vars

C8_Witness ==
  /\ ev.sent = "full"
  /\ Len(body_request_ch) = BodyRequestCap
  /\ body_request_ch[BodyRequestCap] # SelectedId(app)
  /\ app.current_email_body = LoadingBody
  /\ app.scroll_offset = 0
  /\ lpc = "data"

\* C9: is_unread changes only from true to false, only for the selected email
\* at the Viewing-to-List step after a successful mark_as_read; a failed
\* mark_as_read leaves it true and still returns to List; mark_as_read is
\* only called for an unread email.
C9_UnreadFlag ==
  /\ [][/\ \A k \in 1..Len(app.emails) :
             app'.emails[k].is_unread # app.emails[k].is_unread
               => /\ app.emails[k].is_unread /\ ~app'.emails[k].is_unread
                  /\ k = app.selected_index + 1
                  /\ app.mode = "Viewing" /\ app'.mode = "List"
                  /\ ev'.op = "mark_ok"
        /\ (lpc = "mark_read" /\ ev'.op = "mark_err")
             => /\ app'.emails = app.emails
                /\ app.emails[app.selected_index + 1].is_unread
                /\ app'.mode = "List"
        /\ (lpc = "poll" /\ ev'.op = "back" /\ ~NeedsMarkRead(app))
             => /\ app'.emails = app.emails
                /\ lpc' = "data"]_vars
  /\ [](lpc = "mark_read" => NeedsMarkRead(app))

C9_Witness ==
  /\ ev.op = "mark_ok"
  /\ app.mode = "List"
  /\ ~app.emails[app.selected_index + 1].is_unread

RECURSIVE AllNodes(_)
\* every node of a payload tree
AllNodes(payload) ==
  { payload } \cup
    (IF IsSome(payload.parts)
     THEN UNION { AllNodes(Unwrap(payload.parts)[i]) : i \in 1..Len(Unwrap(payload.parts)) }
     ELSE { })

\* the node has inline data that is valid unpadded base64url of valid UTF-8
Decodable(n) ==
  /\ IsSome(n.body)
  /\ IsSome(Unwrap(n.body).data)
  /\ URL_SAFE_NO_PAD_decode(Unwrap(Unwrap(n.body).data)).ok
  /\ Utf8Valid(URL_SAFE_NO_PAD_decode(Unwrap(Unwrap(n.body).data)).val)

TextOf(n) == URL_SAFE_NO_PAD_decode(Unwrap(Unwrap(n.body).data)).val

\* the texts of the decodable nodes of a mime type
Candidates(payload, mime) ==
  { TextOf(n) : n \in { m \in AllNodes(payload) : m.mime_type = mime /\ Decodable(m) } }

\* C10: decode returns a plain-text candidate verbatim when the tree has one,
\* else the 80-column rendering of an html candidate when it has one, else
\* the snippet (also without a payload); a part whose data is missing or does
\* not decode gives no candidate.
C10_DecoderTiering ==
  dec.pc = "done" =>
    LET d == dec.detail
        r == dec.result
    IN  IF ~IsSome(d.payload) THEN r = d.snippet
        ELSE LET plain == Candidates(Unwrap(d.payload), "text/plain")
                 html == Candidates(Unwrap(d.payload), "text/html")
             IN  IF plain # { } THEN r \in plain
                 ELSE IF html # { }
                 THEN r \in { html2text_from_read(h, HtmlWidth) : h \in html }
                 ELSE r = d.snippet

\* an html candidate at the root, a plain candidate below it
C10_Witness ==
  /\ dec.pc = "done"
  /\ IsSome(dec.detail.payload)
  /\ Unwrap(dec.detail.payload).mime_type = "text/html"
  /\ Decodable(Unwrap(dec.detail.payload))
  /\ dec.result = << 72, 101, 108, 108, 111 >>

RECURSIVE PreOrder(_)
RECURSIVE PreOrderParts(_, _)

\* the nodes of a payload tree in pre-order: the node, then each part's subtree
PreOrder(payload) ==
  << payload >> \o
    (IF IsSome(payload.parts) THEN PreOrderParts(Unwrap(payload.parts), 1) ELSE << >>)

PreOrderParts(parts, i) ==
  IF i > Len(parts) THEN << >>
  ELSE PreOrder(parts[i]) \o PreOrderParts(parts, i + 1)

IsCandidate(n, mime) == n.mime_type = mime /\ Decodable(n)

\* the text of the first decodable node of a mime type in pre-order
FirstCandidate(payload, mime) ==
  LET nodes == PreOrder(payload)
      hits == { i \in 1..Len(nodes) : IsCandidate(nodes[i], mime) }
  IN  IF hits = { } THEN None
      ELSE Some(TextOf(nodes[CHOOSE i \in hits : \A j \in hits : i <= j]))

\* C11: the walk returns, as plain candidate, the decoded data of the first
\* node in pre-order that is text/plain and decodes, and independently, as
\* html candidate, that of the first such text/html node; a candidate of a
\* node or an earlier part is never replaced by one of a later part.
C11_FirstMatchWins ==
  (dec.pc = "done" /\ IsSome(dec.detail.payload)) =>
    LET p == Unwrap(dec.detail.payload)
    IN  /\ dec.found[1] = FirstCandidate(p, "text/plain")
        /\ dec.found[2] = FirstCandidate(p, "text/html")

\* a nested plain part ("Hello") precedes a later plain sibling ("Bye"), and
\* two different html candidates are present: the earlier ones are returned
C11_Witness ==
  /\ dec.pc = "done"
  /\ IsSome(dec.detail.payload)
  /\ LET p == Unwrap(dec.detail.payload)
     IN  /\ p.mime_type = "multipart/mixed"
         /\ IsSome(p.parts)
         /\ Len(Unwrap(p.parts)) = 2
         /\ IsSome(Unwrap(p.parts)[1].parts)
         /\ Unwrap(p.parts)[2] = PlainBye
         /\ Cardinality(Candidates(p, "text/plain")) = 2
         /\ dec.found[1] = Some(<< 72, 101, 108, 108, 111 >>)
         /\ IsSome(dec.found[2])

\* C12: is_loading starts true and is cleared only by the iteration whose
\* header try_recv reports the channel closed, that is empty with the sender
\* dropped by a producer that has sent every result or whose listing call
\* failed; when every API call returns and the loop keeps running, is_loading
\* eventually becomes false, with an empty list when the listing call failed.
C12_LoadingLifecycle ==
  /\ app.is_loading
  /\ [][(app.is_loading /\ ~app'.is_loading) =>
          /\ ev'.op = "closed"
          /\ header_ch = << >>
          /\ ppc = "done"
          /\ results = << >>]_vars
  /\ []((~app.is_loading /\ (~listing.ok \/ ~IsSome(listing.val))) => app.emails = << >>)
  /\ <>(~app.is_loading \/ lpc = "exited")

\* loading has ended after a failed listing call, with an empty list
C12_Witness ==
  /\ ~app.is_loading
  /\ ev.op = "closed"
  /\ listing = Err
  /\ ppc = "done"
  /\ app.emails = << >>

\* the listing call has returned an error
ListingFailed == ppc = "done" /\ ~listing.ok

\* C13: when credential acquisition or the initial listing call fails, the
\* process ends with an error message and a non-zero exit code; a normal quit
\* ends it with exit code 0.
C13_FatalStartupErrors ==
  IsSome(proc.exit_code) =>
    IF proc.auth = "err" \/ ListingFailed
    THEN Unwrap(proc.exit_code) # 0 /\ proc.stderr # << >>
    ELSE Unwrap(proc.exit_code) = 0

\* the current body is the text of a message, not a placeholder and not empty
LoadedBody(a) ==
  /\ a.current_email_body # << >>
  /\ a.current_email_body \notin { LoadingEmailList, LoadingBody }

\* a step that calls select with the index that is already selected: the
\* select(0) at the first header, or next / previous on a one-row list
SameIndexSelect ==
  \/ lpc = "data" /\ ev'.op = "header" /\ ~initial_load_done
  \/ (NavStep("next") \/ NavStep("previous")) /\ Len(app.emails) = 1

\* C14: a select of the index already selected changes nothing and sends
\* nothing only when the current body is a loaded, non-empty message body;
\* when it is a placeholder or empty, the select issues a body request for
\* that email.
C14_RedundantSelect ==
  [][SameIndexSelect =>
       IF LoadedBody(app)
       THEN /\ ev'.sent = "none"
            /\ body_request_ch' = body_request_ch
            /\ app'.current_email_body = app.current_email_body
       ELSE /\ ev'.sent # "none"
            /\ app'.current_email_body = LoadingBody]_vars

\* C15: a navigation in List mode that moves selected_index to another index
\* sets, in the same step, scroll_offset to 0 and the body to the loading
\* placeholder and makes exactly one non-blocking send of the newly selected
\* email's id on the body request channel (appended when there is room,
\* dropped when there is none); mode, is_loading and emails are unchanged.
C15_SelectionChangeEffect ==
  [][SelectionChange =>
       /\ app.mode = "List"
       /\ ev'.op \in { "next", "previous" }
       /\ app'.selected_index < Len(app.emails)
       /\ app'.scroll_offset = 0
       /\ app'.current_email_body = LoadingBody
       /\ LET id == app.emails[app'.selected_index + 1].id
          IN  IF Len(body_request_ch) < BodyRequestCap
              THEN body_request_ch' = Append(body_request_ch, id) /\ ev'.sent = "ok"
              ELSE body_request_ch' = body_request_ch /\ ev'.sent = "full"
       /\ app'.mode = app.mode
       /\ app'.is_loading = app.is_loading
       /\ app'.emails = app.emails]_vars

\* a navigation has just selected another row of a loaded list and queued
\* that row's id behind an earlier request
C15_Witness ==
  /\ ev.op \in { "next", "previous" }
  /\ ev.sent = "ok"
  /\ lpc = "data"
  /\ ~app.is_loading
  /\ Len(body_request_ch) >= 2
  /\ body_request_ch[Len(body_request_ch)] = SelectedId(app)
  /\ app.scroll_offset = 0
  /\ app.current_email_body = LoadingBody

\* the body the worker produces for a message id when its fetch succeeds
BodyOf == [id \in 1..(MaxN + 1) |-> decode_email_body(FullMessage(id))]

\* the bodies owed to the loop, oldest first: the results waiting in the
\* result channel, then that of the request the worker is serving, then
\* those of the requests waiting in the request channel
Pipeline ==
  body_result_ch
    \o (CASE wpc = "send" -> << wcur >>
          [] wpc = "fetch" -> << BodyOf[wcur] >>
          [] OTHER -> << >>)
    \o [i \in 1..Len(body_request_ch) |-> BodyOf[body_request_ch[i]]]

RemoveAt(q, k) == SubSeq(q, 1, k - 1) \o SubSeq(q, k + 1, Len(q))

\* C16: the worker serves one request at a time (it takes no request while a
\* fetch is in flight or a result waits to be sent), and bodies reach the
\* loop in request order: an accepted request joins the end of the pipeline,
\* the loop takes its oldest element, a failed fetch removes the worker's
\* element, and no other step changes the pipeline, so no result overtakes
\* that of an earlier request.
C16_WorkerOrdering ==
  /\ [][wpc # "recv" => Len(body_request_ch') >= Len(body_request_ch)]_vars
  /\ [][\/ Pipeline' = Pipeline
        \/ /\ DataStep /\ ~app.is_loading /\ Pipeline # << >>
           /\ Pipeline' = Tail(Pipeline)
           /\ app'.current_email_body = Head(Pipeline)
        \/ \E id \in 1..MaxN :
             /\ body_request_ch' = Append(body_request_ch, id)
             /\ Pipeline' = Append(Pipeline, BodyOf[id])
        \/ /\ wpc = "fetch" /\ wpc' = "recv"
           /\ body_result_ch' = body_result_ch
           /\ Pipeline' = RemoveAt(Pipeline, Len(body_result_ch) + 1)]_vars

\* two different bodies wait in the result channel while the worker serves a
\* third request
C16_Witness ==
  /\ Len(body_result_ch) >= 2
  /\ body_result_ch[1] # body_result_ch[2]
  /\ wpc = "fetch"

\* a step in which a full-message fetch returns
FetchReturns == wpc = "fetch" /\ wpc' # "fetch"

\* the worker's part of the body-fetch failure rule: what follows a fetch is
\* either the send of the decoded body of the requested message or, after a
\* failure, the next recv, with nothing put on the result channel
WorkerSkipsFailure ==
  [][FetchReturns =>
       /\ body_result_ch' = body_result_ch
       /\ \/ wpc' = "send" /\ wcur' = BodyOf[wcur]
          \/ wpc' = "recv"]_vars

SentIds ==
  IF ppc \in { "send", "done" }
  THEN LET drained == Len(message_ids) - Len(results)
           idx == SelectSeq([i \in 1..drained |-> i], LAMBDA i : fetched[i])
       IN  [k \in 1..Len(idx) |-> message_ids[idx[k]]]
  ELSE << >>

\* the elements of the list apart from their is_unread fields
Frozen(a) == [k \in 1..Len(a.emails) |-> << a.emails[k].id, a.emails[k].snippet >>]

\* C18: no header is lost: the list followed by the channel's content is at
\* all times what the producer has sent, in send order, so at the step that
\* clears is_loading (channel empty, producer ended) the list holds every
\* summary sent; from then on is_loading stays false and the list never
\* gains, loses or reorders an element (is_unread fields apart).
C18_NoHeaderLost ==
  /\ [](EmailIds(app) \o [k \in 1..Len(header_ch) |-> header_ch[k].id] = SentIds)
  /\ [][(app.is_loading /\ ~app'.is_loading) =>
          /\ header_ch = << >>
          /\ EmailIds(app') = SentIds
          /\ Len(app'.emails) = Cardinality({ i \in 1..Len(fetched) : fetched[i] })]_vars
  /\ [][~app.is_loading => (~app'.is_loading /\ Frozen(app') = Frozen(app))]_vars

\* after loading ended with a partly failed batch, an email was marked read:
\* the list is otherwise as it was sent
C18_Witness ==
  /\ ~app.is_loading
  /\ ev.op = "mark_ok"
  /\ Len(message_ids) = MaxN
  /\ Len(app.emails) = MaxN - 1
  /\ EmailIds(app) = SentIds

\* a body request has been issued: the initial text is gone for good once a
\* select has replaced it
RequestIssued == app.current_email_body # LoadingEmailList

\* the body shown is the decoded body of the selected email
BodyConsistent == app.current_email_body = BodyOf[SelectedId(app)]

\* C19: in a fair execution in which a body request was issued, none was
\* dropped, every full-message fetch succeeds (the network answers every
\* call), header loading completes and the user stops pressing keys (without
\* quitting), the current body eventually is the decoded body of the selected
\* email and stays so.
C19_EventualBody ==
  \/ <>(lpc = "exited")
  \/ <>[]((net = "reliable" /\ RequestIssued) => BodyConsistent)

\* the user has stopped on the second row and its body is shown, with nothing
\* left in the pipeline
C19_Witness ==
  /\ net = "reliable"
  /\ keysLeft = 0
  /\ ~app.is_loading
  /\ app.selected_index = 1
  /\ RequestIssued /\ BodyConsistent
  /\ Pipeline = << >>
  /\ ev.op = "idle"

\* how many messages a step takes off a channel
Taken(ch, chNext) == IF Len(chNext) < Len(ch) THEN Len(ch) - Len(chNext) ELSE 0

\* C20: while is_loading is true the loop never receives from the body result
\* channel, so the current body is the initial text or the loading
\* placeholder; a fetched body becomes the current body only in an iteration
\* that finds is_loading already false; and an iteration takes at most one
\* message, a header or a body, off the channels.
C20_BodiesDeferred ==
  /\ [](app.is_loading => app.current_email_body \in { LoadingEmailList, LoadingBody })
  /\ [][app.is_loading => Taken(body_result_ch, body_result_ch') = 0]_vars
  /\ [][Taken(body_result_ch, body_result_ch') > 0 =>
          /\ DataStep
          /\ ~app.is_loading /\ ~app'.is_loading
          /\ app'.current_email_body = Head(body_result_ch)]_vars
  /\ [][/\ Taken(header_ch, header_ch') + Taken(body_result_ch, body_result_ch') <= 1
        /\ Taken(header_ch, header_ch') > 0 => (DataStep /\ app.is_loading)]_vars

\* a fetched body waits in the result channel while an iteration of the
\* loading phase takes a header instead and the placeholder stays
C20_Witness ==
  /\ app.is_loading
  /\ ev.op = "header"
  /\ Len(app.emails) >= 2
  /\ body_result_ch # << >>
  /\ app.current_email_body = LoadingBody

\* C21: from the step that enters Viewing until the step that returns to
\* List, selected_index is not changed by any key, header or body result,
\* and the emails already in the list keep their rows, so the email whose
\* is_unread is cleared on the return is the one at the index selected when
\* Viewing was entered.
C21_SelectionFixedWhileViewing ==
  /\ [][(app.mode = "Viewing" \/ app'.mode = "Viewing")
          => app'.selected_index = app.selected_index]_vars
  /\ [][app.mode = "Viewing" =>
          /\ Len(app'.emails) >= Len(app.emails)
          /\ \A k \in 1..Len(app.emails) : app'.emails[k].id = app.emails[k].id]_vars
  /\ [][\A k \in 1..Len(app.emails) :
          app'.emails[k].is_unread # app.emails[k].is_unread
            => /\ app.mode = "Viewing" /\ app'.mode = "List"
               /\ k = app'.selected_index + 1
               /\ app'.emails[k].id = SelectedId(app)]_vars

\* the second row was viewed while headers were still arriving and its flag,
\* not the first row's, was cleared on the return
C21_Witness ==
  /\ ev.op = "mark_ok"
  /\ app.mode = "List"
  /\ app.is_loading
  /\ app.selected_index = 1
  /\ Len(app.emails) >= 2
  /\ ~app.emails[2].is_unread
  /\ app.emails[1].is_unread

====
